---- MODULE Spec2Model ----
(***************************************************************************)
(* csvtextab.py: CSV rows -> LaTeX tabular.                                *)
(*                                                                         *)
(* Left out: verbose (it only adds lines to stderr) and the csv dialect of  *)
(* -f (the model starts from the rows the reader yields).                  *)
(*                                                                         *)
(* Representation of Python values.                                        *)
(*  - A str read from the input (a cell, a header, a requested name) is    *)
(*    the sequence of its characters, each a one-character string.         *)
(*  - The str built by obtain_tex is the sequence of the pieces appended   *)
(*    to it; the Python string is the concatenation of the pieces.  A      *)
(*    piece is a literal of the source ("&\t", "\\\\", ...) or one         *)
(*    character of a cell; every "\n" of a literal is a piece of its own,  *)
(*    so that the lines of the output are the runs between "\n" pieces.    *)
(*  - Where the program depends on the type of a value (int or str in      *)
(*    column_array, the list argparse builds for a nargs=1 option against  *)
(*    a str), the value carries its type: PyInt, PyStr, PyList, PyNone.    *)
(***************************************************************************)
EXTENDS Integers, Sequences, FiniteSets, TLC

VARIABLES
    \* tex_escape(text)
    text, escaped, epc,
    \* command line and process
    args, pc, exitcode, stderr,
    \* module-level settings (lines 120-135)
    noheader, texheader, texcells, headerline, tabular_arg, vspace,
    column_array, inencoding, outencoding, pretext, posttext,
    \* files
    infile, outfile, filerows, written,
    \* csvrows / outtext of the main program (lines 383-386)
    csvrows, outtext,
    \* locals of obtain_tex
    fpc, titles, column_indices, selected_columns, column_amount, output, rowi

escvars == <<text, escaped, epc>>
procvars == <<args, pc, exitcode>>
flagvars == <<noheader, texheader, texcells, headerline, tabular_arg, vspace>>
encvars == <<inencoding, outencoding>>
textvars == <<pretext, posttext>>
filevars == <<infile, outfile, filerows, written>>
localvars == <<fpc, titles, column_indices, selected_columns, column_amount, output, rowi>>
vars == <<escvars, procvars, stderr, flagvars, column_array, encvars, textvars,
          filevars, csvrows, outtext, localvars>>

None == "None"

----------------------------------------------------------------------------
(* Bounds of the model *)

MaxLen == 2
MaxRows == 2
MaxCols == 2
MaxSel == 2
MaxOrder == 3

----------------------------------------------------------------------------
(* Generic sequence helpers *)

RECURSIVE Concat(_)
Concat(ss) == IF ss = <<>> THEN <<>> ELSE Head(ss) \o Concat(Tail(ss))

RECURSIVE Count(_, _)
Count(s, x) == IF s = <<>> THEN 0
               ELSE (IF Head(s) = x THEN 1 ELSE 0) + Count(Tail(s), x)

SeqsUpTo(S, lo, hi) == UNION {[1..n -> S] : n \in lo..hi}

----------------------------------------------------------------------------
(* tex_escape, lines 96-116 *)

conv ==
    ("&" :> <<"\\", "&">>) @@
    ("%" :> <<"\\", "%">>) @@
    ("$" :> <<"\\", "$">>) @@
    ("#" :> <<"\\", "#">>) @@
    ("_" :> <<"\\", "_">>) @@
    ("{" :> <<"\\", "{">>) @@
    ("}" :> <<"\\", "}">>) @@
    ("~" :> <<"\\", "t", "e", "x", "t", "a", "s", "c", "i", "i", "t", "i", "l", "d", "e", "{", "}">>) @@
    ("^" :> <<"\\", "^", "{", "}">>) @@
    ("\\" :> <<"\\", "t", "e", "x", "t", "b", "a", "c", "k", "s", "l", "a", "s", "h", "{", "}">>) @@
    ("<" :> <<"\\", "t", "e", "x", "t", "l", "e", "s", "s", "{", "}">>) @@
    (">" :> <<"\\", "t", "e", "x", "t", "g", "r", "e", "a", "t", "e", "r", "{", "}">>)

\* The keys of conv in the order the dict literal lists them.
conv_keys == <<"&", "%", "$", "#", "_", "{", "}", "~", "^", "\\", "<", ">">>

\* regex: the alternation of the keys; every key is one character, so a
\* match at position p is the single character txt[p].
regex_match(txt, p) == p <= Len(txt) /\ txt[p] \in DOMAIN conv

\* regex.search from position p: the leftmost match position, 0 if none.
regex_search(txt, p) ==
    LET ms == {q \in p..Len(txt) : regex_match(txt, q)}
    IN  IF ms = {} THEN 0 ELSE CHOOSE q \in ms : \A r \in ms : q <= r

\* regex.sub(lambda match: conv[match.group()], text): the non-overlapping
\* matches left to right, the text between them copied, one pass.
RECURSIVE regex_sub(_, _)
regex_sub(txt, p) ==
    LET m == regex_search(txt, p)
    IN  IF m = 0 THEN SubSeq(txt, p, Len(txt))
        ELSE SubSeq(txt, p, m - 1) \o conv[txt[m]] \o regex_sub(txt, m + 1)

\* Faulty variant: one str.replace per key, in dict order, each over the result of
\* the previous one (the backslashes inserted for "&" ... are escaped again).
RECURSIVE replace_all(_, _, _)
replace_all(txt, key, repl) ==
    IF txt = <<>> THEN <<>>
    ELSE (IF Head(txt) = key THEN repl ELSE <<Head(txt)>>) \o replace_all(Tail(txt), key, repl)

RECURSIVE replace_chain(_, _)
replace_chain(txt, k) ==
    IF k > Len(conv_keys) THEN txt
    ELSE replace_chain(replace_all(txt, conv_keys[k], conv[conv_keys[k]]), k + 1)

tex_escape_chained(txt) == replace_chain(txt, 1)

tex_escape(txt) == regex_sub(txt, 1)

----------------------------------------------------------------------------
(* Python list access *)

IndexError == "<IndexError>"

\* lst[idx] for idx >= 0 on a list of str: the item, or the exception, which
\* travels through the string operations as a piece of its own.
PyItem(lst, idx) == IF idx < Len(lst) THEN lst[idx + 1] ELSE <<IndexError>>

Raises(pieces) == \E k \in 1..Len(pieces) : pieces[k] = IndexError

\* str.lstrip(): leading whitespace removed.
Whitespace == {" ", "\t", "\n", "\r"}

RECURSIVE lstrip(_)
lstrip(s) == IF s # <<>> /\ Head(s) \in Whitespace THEN lstrip(Tail(s)) ELSE s

\* Python values whose type the program depends on: the elements of
\* column_array (int or str), the argparse nargs=1 options (None or a list of
\* one str) and the strs they are combined with.
PyInt(n) == [type |-> "int", val |-> n]
PyStr(s) == [type |-> "str", val |-> s]
PyList(l) == [type |-> "list", val |-> l]
PyNone == [type |-> "NoneType", val |-> <<>>]
TypeError == [type |-> "TypeError", val |-> <<>>]
isinstance_int(v) == v.type = "int"

\* bool(v) for None, a str or a list
truthy(v) == v.type # "NoneType" /\ v.val # <<>>

\* a + b for strs and lists: concatenation of two values of one type, and
\* TypeError for a str and a list.
py_add(a, b) ==
    IF a.type = b.type /\ a.type \in {"str", "list"}
    THEN [type |-> a.type, val |-> a.val \o b.val]
    ELSE TypeError

\* s.split(sep) for a one-character sep: at least one part, "" included.
RECURSIVE split(_, _)
split(s, sep) ==
    LET ps == {q \in 1..Len(s) : s[q] = sep}
    IN  IF ps = {} THEN <<s>>
        ELSE LET q == CHOOSE x \in ps : \A y \in ps : x <= y
             IN  <<SubSeq(s, 1, q - 1)>> \o split(SubSeq(s, q + 1, Len(s)), sep)

\* int(s): optional sign and decimal digits; anything else is a ValueError.
Digits == <<"0", "1", "2", "3", "4", "5", "6", "7", "8", "9">>

DigitValue(c) == (CHOOSE k \in 1..Len(Digits) : Digits[k] = c) - 1

IsDigit(c) == \E k \in 1..Len(Digits) : Digits[k] = c

RECURSIVE digits_value(_, _)
digits_value(s, acc) ==
    IF s = <<>> THEN acc ELSE digits_value(Tail(s), acc * 10 + DigitValue(Head(s)))

py_int(s) ==
    LET neg == s # <<>> /\ Head(s) = "-"
        body == IF s # <<>> /\ Head(s) \in {"-", "+"} THEN Tail(s) ELSE s
    IN  IF body # <<>> /\ \A k \in 1..Len(body) : IsDigit(body[k])
        THEN [ok |-> TRUE,
              val |-> IF neg THEN 0 - digits_value(body, 0) ELSE digits_value(body, 0)]
        ELSE [ok |-> FALSE, val |-> 0]

----------------------------------------------------------------------------
(* Tex creation, lines 142-161 *)

titlepostfix == <<>>

headerwrap(cellstr) == IF texheader THEN cellstr ELSE tex_escape(cellstr)

cellwrap(cellstr) == IF texcells THEN cellstr ELSE tex_escape(cellstr)

rowprefix(index, maxidx) == <<>>

rowpostfix(index, maxidx) ==
    <<"\\\\">> \o (IF vspace # "" THEN <<"[" \o vspace \o "]">> ELSE <<>>)

----------------------------------------------------------------------------
(* obtain_tex, lines 163-198: titles, column_indices, selected_columns *)

EmptyDict == [k \in {} |-> 0]

\* Faulty variant: the first column with a given header wins.
dict_set_first(d, key, value) == IF key \in DOMAIN d THEN d ELSE (key :> value) @@ d

\* d[key] = value
dict_set(d, key, value) == (key :> value) @@ d

\* for i in range(0, len(titles)): titles[i] = titles[i].lstrip()
stripped_titles(row) == [k \in 1..Len(row) |-> lstrip(row[k])]

\* ... column_indices[titles[i]] = i, for i = k-1 .. len(titles)-1
RECURSIVE index_titles(_, _, _)
index_titles(ts, k, d) ==
    IF k > Len(ts) THEN d ELSE index_titles(ts, k + 1, dict_set(d, ts[k], k - 1))

\* lines 184-190: the loop over column_array from element k on; sel and warn
\* are selected_columns and the warnings printed so far.
RECURSIVE resolve_names(_, _, _, _, _)
resolve_names(names, d, k, sel, warn) ==
    IF k > Len(names) THEN [sel |-> sel, warn |-> warn]
    ELSE LET colname == names[k].val
         IN  IF colname \in DOMAIN d
             THEN resolve_names(names, d, k + 1, Append(sel, d[colname]), warn)
             ELSE resolve_names(names, d, k + 1, sel, Append(warn, colname))

\* Faulty variant: an unknown header name selects column 0 (dict.get(colname, 0))
\* instead of being dropped with a warning.
resolve_default(names, d) ==
    [sel |-> [k \in 1..Len(names) |->
                 IF names[k].val \in DOMAIN d THEN d[names[k].val] ELSE 0],
     warn |-> <<>>]

resolve(names, d) == resolve_names(names, d, 1, <<>>, <<>>)

\* Faulty variant: the zero-column check of line 197 is missing.
no_columns_never(amount) == FALSE

\* line 197
no_columns(amount) == amount = 0

\* obtain_tex up to line 198
Resolve ==
    /\ fpc = "call"
    /\ IF Len(csvrows) = 0
       THEN /\ outtext' = <<>>
            /\ fpc' = "returned"
            /\ UNCHANGED <<csvrows, titles, column_indices, selected_columns,
                           column_amount, output, stderr>>
       ELSE LET ts == IF noheader THEN <<>> ELSE stripped_titles(csvrows[1])
                d == IF noheader THEN EmptyDict ELSE index_titles(ts, 1, EmptyDict)
                r == IF Len(column_array) > 0
                     THEN IF isinstance_int(column_array[1])
                          THEN [sel |-> [k \in 1..Len(column_array) |-> column_array[k].val],
                                warn |-> <<>>]
                          ELSE resolve(column_array, d)
                     ELSE [sel |-> [k \in 1..Len(csvrows[1]) |-> k - 1], warn |-> <<>>]
            IN  /\ titles' = ts
                \* titles is csvrows[0] itself: the assignment titles[i] = ...
                \* rewrites the caller's row
                /\ csvrows' = IF noheader THEN csvrows ELSE [csvrows EXCEPT ![1] = ts]
                /\ column_indices' = d
                /\ selected_columns' = r.sel
                /\ column_amount' = Len(r.sel)
                /\ stderr' = stderr \o [k \in 1..Len(r.warn) |-> <<"WARNING", r.warn[k]>>]
                /\ output' = <<"\\begin{tabular}{">>
                /\ IF no_columns(Len(r.sel))
                   THEN outtext' = <<>> /\ fpc' = "returned"
                   ELSE outtext' = outtext /\ fpc' = "header"
    /\ rowi' = rowi
    /\ UNCHANGED <<escvars, procvars, flagvars, column_array, encvars, textvars, filevars>>

----------------------------------------------------------------------------
(* obtain_tex, lines 200-231: \begin{tabular}{...} and the header row *)

\* Faulty variant: one "c" too few in the default argument (range(1, column_amount)).
default_arg_short(amount) == [k \in 1..(amount - 1) |-> "c"]

\* lines 201-202
default_arg(amount) == [k \in 1..amount |-> "c"]

\* lines 212-215: the first header cell
first_title(ts, idx) ==
    (IF idx < Len(ts) THEN headerwrap(PyItem(ts, idx)) ELSE <<>>) \o <<"\t">>

\* Faulty variant: a header the selection does not reach is left out, separator included.
next_title_compact(ts, idx) ==
    IF idx < Len(ts) THEN <<"&\t">> \o headerwrap(PyItem(ts, idx)) \o <<"\t">> ELSE <<>>

\* lines 217-220: one pass of the loop over the remaining header cells
next_title(ts, idx) ==
    <<"&\t">> \o (IF idx < Len(ts) THEN headerwrap(PyItem(ts, idx)) \o <<"\t">> ELSE <<>>)

\* lines 225-230: the rule and the compensating empty row
header_rule(amount) ==
    IF headerline
    THEN <<"\n", "\t\\hline">> \o
         (IF vspace # ""
          THEN [k \in 1..(amount - 1) |-> "& "] \o <<"\\\\[-" \o vspace \o "]">>
          ELSE <<>>)
    ELSE <<>>

\* lines 211-231
header_row(ts, sel, amount) ==
    IF Len(sel) = 0 THEN <<IndexError>>   \* selected_columns[0]
    ELSE <<"\t">> \o first_title(ts, sel[1])
         \o Concat([q \in 1..(amount - 1) |-> next_title(ts, sel[q + 1])])
         \o <<"\\\\">> \o (IF vspace # "" THEN <<"[" \o vspace \o "]">> ELSE <<>>)
         \o header_rule(amount)
         \o titlepostfix \o <<"\n", "\n">>

RenderHeader ==
    /\ fpc = "header"
    /\ LET arg == IF tabular_arg = None THEN default_arg(column_amount)
                  ELSE <<tabular_arg>>
           hdr == IF noheader THEN <<>>
                  ELSE header_row(titles, selected_columns, column_amount)
       IN  IF Raises(hdr)
           THEN fpc' = "raised" /\ UNCHANGED <<output, rowi>>
           ELSE /\ output' = output \o arg \o <<"}", "\n">> \o hdr
                /\ rowi' = (IF noheader THEN 0 ELSE 1)
                /\ fpc' = "rows"
    /\ UNCHANGED <<titles, column_indices, selected_columns, column_amount>>
    /\ UNCHANGED <<escvars, procvars, stderr, flagvars, column_array, encvars,
                   textvars, filevars, csvrows, outtext>>

----------------------------------------------------------------------------
(* obtain_tex, lines 233-255: the data rows and \end{tabular} *)

\* Faulty variant: the bounds check of line 243 is missing.
first_cell_unchecked(row, idx) == cellwrap(PyItem(row, idx)) \o <<"\t">>

\* lines 242-245
first_cell(row, idx) ==
    (IF idx < Len(row) THEN cellwrap(PyItem(row, idx)) ELSE <<>>) \o <<"\t">>

\* Faulty variant: a cell the row does not have is left out, separator included.
next_cell_compact(row, idx) ==
    IF idx < Len(row) THEN <<"&\t">> \o cellwrap(PyItem(row, idx)) \o <<"\t">> ELSE <<>>

\* lines 247-250: one pass of the loop over the remaining cells
next_cell(row, idx) ==
    <<"&\t">> \o (IF idx < Len(row) THEN cellwrap(PyItem(row, idx)) \o <<"\t">> ELSE <<>>)

\* lines 240-251, for a row with at least one cell
data_row(row, index, sel, amount) ==
    IF Len(sel) = 0 THEN <<IndexError>>   \* selected_columns[0]
    ELSE <<"\t">> \o rowprefix(index, Len(row) - 1)
         \o first_cell(row, sel[1])
         \o Concat([q \in 1..(amount - 1) |-> next_cell(row, sel[q + 1])])
         \o rowpostfix(index, Len(row) - 1) \o <<"\n">>

\* Faulty variant: rows without cells are rendered like the others.
skip_row_never(row) == FALSE

\* lines 237-238
skip_row(row) == Len(row) = 0

\* one pass of the loop of line 233
RenderRow ==
    /\ fpc = "rows"
    /\ rowi < Len(csvrows)
    /\ LET row == csvrows[rowi + 1]
           line == IF skip_row(row) THEN <<>>
                   ELSE data_row(row, rowi, selected_columns, column_amount)
       IN  IF Raises(line)
           THEN fpc' = "raised" /\ UNCHANGED <<output, rowi>>
           ELSE output' = output \o line /\ rowi' = rowi + 1 /\ fpc' = fpc
    /\ UNCHANGED <<titles, column_indices, selected_columns, column_amount>>
    /\ UNCHANGED <<escvars, procvars, stderr, flagvars, column_array, encvars,
                   textvars, filevars, csvrows, outtext>>

\* lines 254-255
Return ==
    /\ fpc = "rows"
    /\ rowi >= Len(csvrows)
    /\ output' = output \o <<"\\end{tabular}", "\n">>
    /\ outtext' = output'
    /\ fpc' = "returned"
    /\ UNCHANGED <<titles, column_indices, selected_columns, column_amount, rowi>>
    /\ UNCHANGED <<escvars, procvars, stderr, flagvars, column_array, encvars,
                   textvars, filevars, csvrows>>

----------------------------------------------------------------------------
(* Argument parsing, lines 281-346 *)

\* print("ERROR: ...", file=sys.stderr); exit(1)
Fatal(what) ==
    /\ stderr' = Append(stderr, <<"ERROR", what>>)
    /\ exitcode' = 1
    /\ pc' = "exit"

\* lines 283-290
ApplyFlags ==
    /\ pc = "flags"
    /\ noheader' = args.noheader
    /\ texheader' = args.texheader
    /\ texcells' = args.texcells
    /\ headerline' = args.headerline
    /\ tabular_arg' = (IF truthy(args.argument) THEN args.argument.val[1] ELSE tabular_arg)
    /\ pc' = "column_order_int"
    /\ UNCHANGED <<escvars, args, exitcode, stderr, vspace, column_array, encvars,
                   textvars, filevars, csvrows, outtext, localvars>>

\* lines 292-307
ParseColumnOrderInt ==
    /\ pc = "column_order_int"
    /\ IF truthy(args.column_order_int)
       THEN LET parts == split(args.column_order_int.val[1], ",")
                bad == {k \in 1..Len(parts) : ~py_int(parts[k]).ok \/ py_int(parts[k]).val < 0}
                b == IF bad = {} THEN Len(parts) + 1
                     ELSE CHOOSE x \in bad : \A y \in bad : x <= y
            IN  \* the entries before the first bad one are already ints
                /\ column_array' = [k \in 1..Len(parts) |->
                                      IF k < b THEN PyInt(py_int(parts[k]).val)
                                      ELSE PyStr(parts[k])]
                /\ IF Len(parts) = 0 \/ bad # {}
                   THEN Fatal("column-order-int")
                   ELSE pc' = "column_order_string" /\ UNCHANGED <<exitcode, stderr>>
       ELSE pc' = "column_order_string" /\ UNCHANGED <<column_array, exitcode, stderr>>
    /\ UNCHANGED <<escvars, args, flagvars, encvars, textvars, filevars, csvrows,
                   outtext, localvars>>

\* lines 309-316
ParseColumnOrderString ==
    /\ pc = "column_order_string"
    /\ IF truthy(args.column_order_string)
       THEN IF noheader
            THEN Fatal("column-order-string") /\ UNCHANGED column_array
            ELSE LET parts == split(args.column_order_string.val[1], ",")
                 IN  /\ column_array' = [k \in 1..Len(parts) |-> PyStr(parts[k])]
                     /\ IF Len(parts) = 0
                        THEN Fatal("column-order-string")
                        ELSE pc' = "encoding" /\ UNCHANGED <<exitcode, stderr>>
       ELSE pc' = "encoding" /\ UNCHANGED <<column_array, exitcode, stderr>>
    /\ UNCHANGED <<escvars, args, flagvars, encvars, textvars, filevars, csvrows,
                   outtext, localvars>>

\* lines 318-326.  The elif of line 322 is tried only when len(encstrs) is 0,
\* and split never returns an empty list.
ParseEncoding ==
    /\ pc = "encoding"
    /\ IF truthy(args.encoding)
       THEN LET encstrs == split(args.encoding.val[1], ",")
            IN  IF Len(encstrs) > 0
                THEN /\ inencoding' = encstrs[1]
                     /\ pc' = "vspace"
                     /\ UNCHANGED <<outencoding, exitcode, stderr>>
                ELSE /\ stderr' = Append(stderr, <<"Traceback", "TypeError">>)
                     /\ exitcode' = 1
                     /\ pc' = "crash"
                     /\ UNCHANGED encvars
       ELSE pc' = "vspace" /\ UNCHANGED <<encvars, exitcode, stderr>>
    /\ UNCHANGED <<escvars, args, flagvars, column_array, textvars, filevars, csvrows,
                   outtext, localvars>>

\* lines 330-331 (lines 333-337 set the csv dialect, which the model leaves
\* to filerows, the rows the reader yields)
SetVspace ==
    /\ pc = "vspace"
    /\ vspace' = (IF truthy(args.vspace) THEN args.vspace.val[1] ELSE vspace)
    /\ pc' = "text"
    /\ UNCHANGED <<escvars, args, exitcode, stderr, noheader, texheader, texcells,
                   headerline, tabular_arg, column_array, encvars, textvars, filevars,
                   csvrows, outtext, localvars>>

Preamble == PyStr(<<"\\documentclass{article}\\begin{document}", "\n">>)

Postamble == PyStr(<<"\\end{document}", "\n">>)

\* lines 339-346: args.pretext and args.posttext are the nargs=1 lists
ComposeText ==
    /\ pc = "text"
    /\ LET pre1 == IF args.latex THEN py_add(pretext, Preamble) ELSE pretext
           post1 == IF args.latex THEN py_add(posttext, Postamble) ELSE posttext
           pre2 == IF truthy(args.pretext) THEN py_add(pre1, args.pretext) ELSE pre1
           post2 == IF truthy(args.posttext) THEN py_add(args.posttext, post1) ELSE post1
       IN  IF pre2.type = "TypeError"
           THEN \* line 344 raises; posttext already holds the postamble
                /\ pretext' = pre1 /\ posttext' = post1
                /\ stderr' = Append(stderr, <<"Traceback", "TypeError">>)
                /\ exitcode' = 1 /\ pc' = "crash"
           ELSE IF post2.type = "TypeError"
           THEN \* line 346 raises
                /\ pretext' = pre2 /\ posttext' = post1
                /\ stderr' = Append(stderr, <<"Traceback", "TypeError">>)
                /\ exitcode' = 1 /\ pc' = "crash"
           ELSE /\ pretext' = pre2 /\ posttext' = post2
                /\ pc' = "infile" /\ UNCHANGED <<exitcode, stderr>>
    /\ UNCHANGED <<escvars, args, flagvars, column_array, encvars, filevars, csvrows,
                   outtext, localvars>>

----------------------------------------------------------------------------
(* Files, lines 348-393 *)

\* The paths open() succeeds on, for reading and for writing.
Readable == {"in.csv"}

Writable == {"out.tex"}

\* Faulty variant: the failure is reported and the program goes on with stdout.
OpenOutNoExit ==
    /\ pc = "outfile"
    /\ IF args.outfile # "-" /\ args.outfile \notin Writable
       THEN /\ stderr' = Append(stderr, <<"ERROR", "outfile">>)
            /\ pc' = "read"
            /\ UNCHANGED <<outfile, exitcode>>
       ELSE /\ outfile' = (IF args.outfile # "-" THEN args.outfile ELSE outfile)
            /\ pc' = "read"
            /\ UNCHANGED <<exitcode, stderr>>
    /\ UNCHANGED <<escvars, args, flagvars, column_array, encvars, textvars, infile,
                   filerows, written, csvrows, outtext, localvars>>

\* lines 349-360
OpenIn ==
    /\ pc = "infile"
    /\ IF args.infile # "-"
       THEN IF args.infile \in Readable
            THEN infile' = args.infile /\ pc' = "outfile" /\ UNCHANGED <<exitcode, stderr>>
            ELSE Fatal("infile") /\ UNCHANGED infile
       ELSE pc' = "outfile" /\ UNCHANGED <<infile, exitcode, stderr>>
    /\ UNCHANGED <<escvars, args, flagvars, column_array, encvars, textvars, outfile,
                   filerows, written, csvrows, outtext, localvars>>

\* lines 362-373
OpenOut ==
    /\ pc = "outfile"
    /\ IF args.outfile # "-"
       THEN IF args.outfile \in Writable
            THEN outfile' = args.outfile /\ pc' = "read" /\ UNCHANGED <<exitcode, stderr>>
            ELSE Fatal("outfile") /\ UNCHANGED outfile
       ELSE pc' = "read" /\ UNCHANGED <<outfile, exitcode, stderr>>
    /\ UNCHANGED <<escvars, args, flagvars, column_array, encvars, textvars, infile,
                   filerows, written, csvrows, outtext, localvars>>

\* lines 382-386: every row of the reader is appended, then obtain_tex is called
ReadRows ==
    /\ pc = "read"
    /\ csvrows' = filerows
    /\ pc' = "render"
    /\ fpc' = "call"
    /\ UNCHANGED <<escvars, args, exitcode, stderr, flagvars, column_array, encvars,
                   textvars, filevars, outtext, titles, column_indices,
                   selected_columns, column_amount, output, rowi>>

\* lines 387-389
WritePretext ==
    /\ pc = "render"
    /\ fpc = "returned"
    /\ pretext' = (IF pretext.val # <<>> THEN py_add(pretext, PyStr(<<"\n">>)) ELSE pretext)
    /\ written' = written \o pretext'.val
    /\ pc' = "write_outtext"
    /\ UNCHANGED <<escvars, args, exitcode, stderr, flagvars, column_array, encvars,
                   posttext, infile, outfile, filerows, csvrows, outtext, localvars>>

\* lines 390-391
WriteOuttext ==
    /\ pc = "write_outtext"
    /\ written' = written \o outtext
    /\ infile' = "closed"
    /\ pc' = "write_posttext"
    /\ UNCHANGED <<escvars, args, exitcode, stderr, flagvars, column_array, encvars,
                   textvars, outfile, filerows, csvrows, outtext, localvars>>

\* lines 392-393
WritePosttext ==
    /\ pc = "write_posttext"
    /\ written' = written \o posttext.val
    /\ outfile' = "closed"
    /\ pc' = "done"
    /\ UNCHANGED <<escvars, args, exitcode, stderr, flagvars, column_array, encvars,
                   textvars, infile, filerows, csvrows, outtext, localvars>>

----------------------------------------------------------------------------
(* Inputs of the model *)

\* Cells: plain text, a LaTeX-special character, leading whitespace, and two
\* headers that are equal once stripped.
CellCycles == << <<(<<"a">>), (<<"&">>), (<<" ", "b">>)>>,
                 <<(<<" ", "a">>), (<<"a">>)>> >>

MasterRow(c, n) == [j \in 1..n |-> CellCycles[c][((j - 1) % Len(CellCycles[c])) + 1]]

\* Rows of 0..MaxCols cells (csv.reader yields [] for a blank line).
Rows == {MasterRow(c, n) : c \in 1..Len(CellCycles), n \in 0..MaxCols}

Tables == SeqsUpTo(Rows, 0, MaxRows)

\* -c: non-negative indices, repeated or beyond every row (lines 297-307)
IntSels == {[k \in 1..Len(s) |-> PyInt(s[k])] : s \in SeqsUpTo(0..MaxCols, 1, MaxSel)}

\* The same, up to the longer orders the cell contents are checked with.
LongIntSels == {[k \in 1..Len(s) |-> PyInt(s[k])] : s \in SeqsUpTo(0..MaxCols, 1, MaxOrder)}

\* -C: header names, some of them in no header
Names == {<<"a">>, <<"&">>, <<"x">>, <<" ", "a">>}

NameSels == {[k \in 1..Len(s) |-> PyStr(s[k])] : s \in SeqsUpTo(Names, 1, MaxSel)}

VSpaces == {"", "4pt"}

TabularArgs == {None, "l|r"}

DefaultArgs ==
    [texheader |-> FALSE, texcells |-> FALSE, headerline |-> FALSE, noheader |-> FALSE,
     argument |-> PyNone, column_order_int |-> PyNone, column_order_string |-> PyNone,
     encoding |-> PyNone, vspace |-> PyNone, latex |-> FALSE,
     pretext |-> PyNone, posttext |-> PyNone, infile |-> "-", outfile |-> "-"]

IdleEscape == text = <<>> /\ escaped = <<>> /\ epc = "idle"

IdleLocals ==
    /\ titles = <<>> /\ column_indices = EmptyDict /\ selected_columns = <<>>
    /\ column_amount = 0 /\ output = <<>> /\ rowi = 0

\* The state in which line 386 calls obtain_tex(csvrows).
AtCall ==
    /\ IdleEscape
    /\ args = DefaultArgs /\ pc = "render" /\ exitcode = 0 /\ stderr = <<>>
    /\ inencoding = <<"utf-8">> /\ outencoding = <<"utf-8">>
    /\ pretext = PyStr(<<>>) /\ posttext = PyStr(<<>>)
    /\ infile = "stdin" /\ outfile = "stdout" /\ written = <<>>
    /\ filerows = csvrows /\ outtext = <<>>
    /\ fpc = "call" /\ IdleLocals

NextRender == Resolve \/ RenderHeader \/ RenderRow \/ Return

\* Integer column orders, cells escaped or not.
InitCells ==
    /\ csvrows \in Tables
    /\ column_array \in LongIntSels
    /\ noheader \in BOOLEAN /\ texcells \in BOOLEAN
    /\ texheader = FALSE /\ headerline = FALSE /\ tabular_arg = None /\ vspace = ""
    /\ AtCall

SpecCells == InitCells /\ [][NextRender]_vars

\* No column order or an integer one, every layout option.
InitLayout ==
    /\ csvrows \in Tables
    /\ column_array \in {<<>>} \cup IntSels
    /\ noheader \in BOOLEAN /\ headerline \in BOOLEAN
    /\ vspace \in VSpaces /\ tabular_arg \in TabularArgs
    /\ texheader = FALSE /\ texcells = FALSE
    /\ AtCall

SpecLayout == InitLayout /\ [][NextRender]_vars

\* No column order or one by header names (-C is refused with -H, line 310).
InitNames ==
    /\ csvrows \in Tables
    /\ \/ column_array \in NameSels /\ noheader = FALSE
       \/ column_array = <<>> /\ noheader \in BOOLEAN
    /\ texheader \in BOOLEAN /\ vspace \in VSpaces
    /\ texcells = FALSE /\ headerline = FALSE /\ tabular_arg = None
    /\ AtCall

SpecNames == InitNames /\ [][NextRender]_vars

----------------------------------------------------------------------------
(* tex_escape alone *)

EscapeAlphabet == DOMAIN conv \cup {"a", " "}

TexEscape ==
    /\ epc = "call"
    /\ escaped' = tex_escape(text)
    /\ epc' = "returned"
    /\ UNCHANGED <<text, procvars, stderr, flagvars, column_array, encvars, textvars,
                   filevars, csvrows, outtext, localvars>>

InitEscape ==
    /\ text \in SeqsUpTo(EscapeAlphabet, 0, MaxLen)
    /\ escaped = <<>> /\ epc = "call"
    /\ args = DefaultArgs /\ pc = "idle" /\ exitcode = 0 /\ stderr = <<>>
    /\ noheader = FALSE /\ texheader = FALSE /\ texcells = FALSE
    /\ headerline = FALSE /\ tabular_arg = None /\ vspace = ""
    /\ column_array = <<>>
    /\ inencoding = <<"utf-8">> /\ outencoding = <<"utf-8">>
    /\ pretext = PyStr(<<>>) /\ posttext = PyStr(<<>>)
    /\ infile = "stdin" /\ outfile = "stdout" /\ written = <<>>
    /\ filerows = <<>> /\ csvrows = <<>> /\ outtext = <<>>
    /\ fpc = "idle" /\ IdleLocals

SpecEscape == InitEscape /\ [][TexEscape]_vars

----------------------------------------------------------------------------
(* The whole program, from parse_args (line 281) to the last close *)

Option(values) == {PyNone} \cup {PyList(<<v>>) : v \in values}

ArgSets ==
    [texheader : {FALSE}, texcells : {FALSE}, headerline : {FALSE},
     noheader : BOOLEAN,
     argument : {PyNone},
     column_order_int : Option({<<"1", ",", "0", ",", "0">>, <<"0", ",", "x">>,
                                <<"1", ",", "-", "1">>}),
     column_order_string : Option({<<"a", ",", "x">>}),
     encoding : Option({<<"latin-1">>, <<"latin-1", ",", "utf-16">>}),
     vspace : Option({"4pt"}),
     latex : BOOLEAN,
     pretext : Option({<<"\\centering">>}),
     posttext : Option({<<"% end">>}),
     infile : {"-", "in.csv", "missing.csv"},
     outfile : {"-", "out.tex", "nodir/out.tex"}]

\* What the reader yields: nothing, or a header and two ragged rows.
FileContents == {<<>>, <<MasterRow(2, 2), MasterRow(1, 2), MasterRow(1, 1)>>}

InitMain ==
    /\ args \in ArgSets
    /\ filerows \in FileContents
    /\ pc = "flags" /\ exitcode = 0 /\ stderr = <<>>
    /\ IdleEscape
    \* lines 120-135
    /\ noheader = FALSE /\ texheader = FALSE /\ texcells = FALSE
    /\ headerline = FALSE /\ tabular_arg = None /\ vspace = ""
    /\ column_array = <<>>
    /\ inencoding = <<"utf-8">> /\ outencoding = <<"utf-8">>
    /\ pretext = PyStr(<<>>) /\ posttext = PyStr(<<>>)
    /\ infile = "stdin" /\ outfile = "stdout" /\ written = <<>>
    /\ csvrows = <<>> /\ outtext = <<>>
    /\ fpc = "idle" /\ IdleLocals

NextMain ==
    \/ ApplyFlags \/ ParseColumnOrderInt \/ ParseColumnOrderString \/ ParseEncoding
    \/ SetVspace \/ ComposeText \/ OpenIn \/ OpenOut \/ ReadRows
    \/ Resolve \/ RenderHeader \/ RenderRow \/ Return
    \/ WritePretext \/ WriteOuttext \/ WritePosttext

SpecMain == InitMain /\ [][NextMain]_vars

----------------------------------------------------------------------------
(* Reading an output back: lines, cells, separators *)

\* The lines of a text, each without its "\n".
Lines(t) == LET ps == split(t, "\n") IN SubSeq(ps, 1, Len(ps) - 1)

\* The terminator the configuration asks for: \\ and, iff a vertical space is
\* configured, [<unit>].
Terminator == IF vspace # "" THEN <<"\\\\", "[" \o vspace \o "]">> ELSE <<"\\\\">>

EndsWith(s, t) == Len(s) >= Len(t) /\ SubSeq(s, Len(s) - Len(t) + 1, Len(s)) = t

NotTab(c) == c # "\t"

\* The cells of a header or data line: the terminator removed, the rest cut
\* at the separators the renderer emitted, the padding tabs dropped.
LineCells(line) ==
    LET body == SubSeq(line, 1, Len(line) - Len(Terminator))
        segs == split(body, "&\t")
    IN  [k \in 1..Len(segs) |-> SelectSeq(segs[k], NotTab)]

\* Lines before the first data line: \begin{tabular}, and with a header the
\* header line, the rule line if any, and the empty line.
LinesBeforeData ==
    1 + (IF noheader THEN 0 ELSE 2 + (IF headerline THEN 1 ELSE 0))

FirstDataRow == IF noheader THEN 1 ELSE 2

NonEmpty(r) == Len(r) > 0

\* The data rows handled so far that have cells, in order.
RenderedRows == SelectSeq(SubSeq(csvrows, FirstDataRow, rowi), NonEmpty)

\* The lines of the data rows in what has been emitted so far.
DataLines ==
    LET ls == Lines(output)
        last == IF fpc = "returned" THEN Len(ls) - 1 ELSE Len(ls)
    IN  SubSeq(ls, LinesBeforeData + 1, last)

InBody == fpc \in {"rows", "returned"} /\ output # <<>> /\ Len(csvrows) > 0 /\ column_amount > 0

----------------------------------------------------------------------------
(* C3 *)

Replacement(c) == IF c \in DOMAIN conv THEN conv[c] ELSE <<c>>

NumSpecial(s) == Cardinality({k \in 1..Len(s) : s[k] \in DOMAIN conv})

\* C3: tex_escape(s) is the concatenation, character by character, of the
\* replacement of each special character and of every other character itself;
\* nothing a replacement inserted is escaped again (one backslash per special
\* character of s), and tex_escape(s) = s when s has no special character.
C3_EscapeCharByChar ==
    epc = "returned" =>
        /\ escaped = Concat([k \in 1..Len(text) |-> Replacement(text[k])])
        /\ Count(escaped, "\\") = NumSpecial(text)
        /\ (NumSpecial(text) = 0 => escaped = text)

C3_Witness ==
    /\ epc = "returned"
    /\ text = <<"%", "\\">>
    /\ escaped = <<"\\", "%">> \o conv["\\"]

----------------------------------------------------------------------------
(* C1 *)

\* What the claim says the k-th cell of row r is under the selection sel.
ClaimedCell(r, idx) ==
    IF idx < Len(r)
    THEN (IF texcells THEN r[idx + 1] ELSE tex_escape(r[idx + 1]))
    ELSE <<>>

\* C1: with an integer column order obtain_tex never raises, and every data
\* row that has cells is rendered as exactly len(sel) cells in selection
\* order, the k-th being the (escaped, unless escaping is off) content of
\* r[sel[k]] if sel[k] < len(r) and empty otherwise.
C1_CellsInSelectionOrder ==
    /\ fpc # "raised"
    /\ (InBody /\ fpc = "returned" /\ column_array # <<>> /\ isinstance_int(column_array[1])) =>
          LET sel == [k \in 1..Len(column_array) |-> column_array[k].val]
          IN  /\ Len(DataLines) = Len(RenderedRows)
              /\ \A j \in 1..Len(RenderedRows) :
                    LineCells(DataLines[j]) =
                        [k \in 1..Len(sel) |-> ClaimedCell(RenderedRows[j], sel[k])]

\* The order [1,0,0] on the row [a, &]: the escaped "&", then "a" twice.
C1_Witness ==
    /\ fpc = "returned"
    /\ ~texcells
    /\ column_array = <<PyInt(1), PyInt(0), PyInt(0)>>
    /\ \E j \in 1..Len(RenderedRows) :
          /\ RenderedRows[j] = << <<"a">>, <<"&">> >>
          /\ DataLines[j] = <<"\t", "\\", "&", "\t", "&\t", "a", "\t", "&\t", "a", "\t", "\\\\">>

\* The order [2,1] on the same row: an empty cell, then the escaped "&".
C1_OutOfRange ==
    /\ fpc = "returned"
    /\ ~texcells
    /\ column_array = <<PyInt(2), PyInt(1)>>
    /\ \E j \in 1..Len(RenderedRows) :
          /\ RenderedRows[j] = << <<"a">>, <<"&">> >>
          /\ DataLines[j] = <<"\t", "\t", "&\t", "\\", "&", "\t", "\\\\">>

----------------------------------------------------------------------------
(* C10 *)

\* The data rows of the table that have cells.
DataRowsWithCells == SelectSeq(SubSeq(csvrows, FirstDataRow, Len(csvrows)), NonEmpty)

\* C10: in every non-empty output, with n selected columns: the default
\* tabular argument is n letters c; the header line, the compensating empty
\* row after the rule and every data row each hold n-1 separators emitted by
\* the renderer, also for indices beyond the header or the row; data rows
\* without cells give no line; the header line and every data row end with
\* the same terminator, \\ followed by [<unit>] iff a unit is configured.
C10_Layout ==
    (fpc = "returned" /\ outtext # <<>>) =>
        LET ls == Lines(outtext)
            n == column_amount
            data == SubSeq(ls, LinesBeforeData + 1, Len(ls) - 1)
        IN  /\ n = Len(selected_columns) /\ n > 0
            /\ Len(ls) >= LinesBeforeData + 1
            /\ tabular_arg = None =>
                  ls[1] = <<"\\begin{tabular}{">> \o [k \in 1..n |-> "c"] \o <<"}">>
            /\ ~noheader =>
                  /\ Count(ls[2], "&\t") = n - 1
                  /\ EndsWith(ls[2], Terminator)
                  /\ Count(ls[2], "\\\\") = 1
            /\ (~noheader /\ headerline) =>
                  /\ Head(ls[3]) = "\t\\hline"
                  /\ IF vspace # ""
                     THEN Tail(ls[3]) = [k \in 1..(n - 1) |-> "& "] \o <<"\\\\[-" \o vspace \o "]">>
                     ELSE Tail(ls[3]) = <<>>
            /\ ~noheader => ls[LinesBeforeData] = <<>>
            /\ Len(data) = Len(DataRowsWithCells)
            /\ \A j \in 1..Len(data) :
                  /\ Count(data[j], "&\t") = n - 1
                  /\ EndsWith(data[j], Terminator)
                  /\ Count(data[j], "\\\\") = 1
            /\ ls[Len(ls)] = <<"\\end{tabular}">>

\* A header shorter than the selection, with the rule and a vertical space.
C10_Witness ==
    /\ fpc = "returned"
    /\ ~noheader /\ headerline /\ vspace = "4pt" /\ tabular_arg = None
    /\ selected_columns = <<2, 0>>
    /\ Len(csvrows) = 2 /\ Len(csvrows[1]) = 1 /\ Len(csvrows[2]) = 2
    /\ Lines(outtext)[1] = <<"\\begin{tabular}{", "c", "c", "}">>
    /\ Lines(outtext)[3] = <<"\t\\hline", "& ", "\\\\[-4pt]">>
    /\ Len(Lines(outtext)) = 6

----------------------------------------------------------------------------
(* C2, C4 *)

\* The header row as the reader gave it, each header without its leading
\* whitespace.
StrippedHeader == [k \in 1..Len(filerows[1]) |-> lstrip(filerows[1][k])]

InHeader(v) == \E k \in 1..Len(StrippedHeader) : StrippedHeader[k] = v.val

NotInHeader(v) == ~InHeader(v)

\* The 0-based columns whose stripped header is the name.
Occurrences(name) == {k - 1 : k \in {j \in 1..Len(StrippedHeader) : StrippedHeader[j] = name}}

Min(S) == CHOOSE x \in S : \A y \in S : x <= y

Max(S) == CHOOSE x \in S : \A y \in S : x >= y

\* A column order by names has been resolved against a header row.
NamesResolved ==
    /\ fpc \notin {"idle", "call"}
    /\ Len(filerows) > 0 /\ ~noheader
    /\ column_array # <<>> /\ ~isinstance_int(column_array[1])

FoundNames == SelectSeq(column_array, InHeader)

MissingNames == SelectSeq(column_array, NotInHeader)

\* C2, as claimed: every requested name found in the header resolves to the
\* index of its first occurrence.
C2_FirstOccurrence ==
    NamesResolved =>
        /\ Len(selected_columns) = Len(FoundNames)
        /\ \A j \in 1..Len(FoundNames) :
              selected_columns[j] = Min(Occurrences(FoundNames[j].val))

\* C2, amended: every requested name found in the header resolves to the
\* index of its last occurrence (its only one when the header text is unique).
C2_LastOccurrence ==
    NamesResolved =>
        /\ Len(selected_columns) = Len(FoundNames)
        /\ \A j \in 1..Len(FoundNames) :
              selected_columns[j] = Max(Occurrences(FoundNames[j].val))

\* The headers " a" and "a" are both "a" once stripped; the name selects the second.
C2_Witness ==
    /\ NamesResolved
    /\ filerows[1] = << <<" ", "a">>, <<"a">> >>
    /\ column_array = <<PyStr(<<"a">>)>>
    /\ selected_columns = <<1>>

\* C4: a requested name absent from the header gives a warning and is
\* dropped, processing goes on, and the selection is the sequence of the
\* indices of the names found, in requested order, duplicates kept.
C4_MissingNamesDropped ==
    /\ (Len(filerows) > 0 /\ ~noheader /\ column_array # <<>>
          /\ ~isinstance_int(column_array[1])) => fpc # "raised"
    /\ NamesResolved =>
          /\ Len(selected_columns) = Len(FoundNames)
          /\ \A j \in 1..Len(FoundNames) :
                /\ selected_columns[j] < Len(StrippedHeader)
                /\ StrippedHeader[selected_columns[j] + 1] = FoundNames[j].val
          /\ stderr = [k \in 1..Len(MissingNames) |-> <<"WARNING", MissingNames[k].val>>]
          /\ (fpc = "returned" /\ FoundNames # <<>>) =>
                /\ outtext # <<>>
                /\ Lines(outtext)[1] = <<"\\begin{tabular}{">>
                                        \o [k \in 1..Len(FoundNames) |-> "c"] \o <<"}">>

\* The names [&, x] against the header [a, &]: one warning, one column.
C4_Witness ==
    /\ NamesResolved /\ fpc = "returned"
    /\ filerows[1] = << <<"a">>, <<"&">> >>
    /\ column_array = <<PyStr(<<"&">>), PyStr(<<"x">>)>>
    /\ selected_columns = <<1>>
    /\ stderr = << <<"WARNING", <<"x">> >> >>
    /\ outtext # <<>>

----------------------------------------------------------------------------
(* C5, C7 *)

\* The table has no rows, or the column order resolves to no column: no order
\* and a first row without cells, or names of which none is a header.
NoColumns ==
    \/ Len(filerows) = 0
    \/ column_array = <<>> /\ Len(filerows[1]) = 0
    \/ /\ column_array # <<>> /\ ~isinstance_int(column_array[1])
       /\ (noheader \/ FoundNames = <<>>)

IsTabularMark(c) == c \in {"\\begin{tabular}{", "\\end{tabular}"}

\* C5: obtain_tex returns the empty string for a table without rows and for
\* a column order of zero columns, whatever the other rows and options are;
\* neither \begin{tabular} nor \end{tabular} is then part of the result.
C5_EmptyResult ==
    NoColumns =>
        /\ fpc \in {"call", "returned"}
        /\ outtext = <<>>
        /\ SelectSeq(outtext, IsTabularMark) = <<>>

\* No requested name is a header, and the table has more rows.
C5_Witness ==
    /\ fpc = "returned" /\ outtext = <<>>
    /\ column_array = <<PyStr(<<"x">>), PyStr(<<" ", "a">>)>>
    /\ filerows = << << <<" ", "a">>, <<"a">> >>, << <<"a">>, <<"&">> >> >>
    /\ Len(stderr) = 2

\* C7, as claimed: obtain_tex leaves every row of the table, the header row
\* included, and the configured column order as they were at the call.
InObtainTex == fpc \in {"call", "header", "rows"}

ArgumentsKept == csvrows' = csvrows /\ column_array' = column_array

C7_TableUnchanged == [][InObtainTex => ArgumentsKept]_vars

----------------------------------------------------------------------------
(* C6, C8, C9 *)

UserText(opt) == IF truthy(opt) THEN opt.val[1] ELSE <<>>

\* C6, as claimed: whatever the full-document flag and the user's pre- and
\* post-text are, a user text never makes the run fail, and what is written
\* is pretext, a newline if pretext is not empty, the tabular output and
\* posttext, where in full-document mode the preamble precedes the user's
\* pre-text and \end{document} follows the user's post-text.
C6_WrappedOutput ==
    /\ (truthy(args.pretext) \/ truthy(args.posttext)) => pc # "crash"
    /\ pc = "done" =>
          LET pre == (IF args.latex THEN Preamble.val ELSE <<>>) \o UserText(args.pretext)
              post == UserText(args.posttext) \o (IF args.latex THEN Postamble.val ELSE <<>>)
          IN  written = pre \o (IF pre # <<>> THEN <<"\n">> ELSE <<>>) \o outtext \o post

FatalReported == \E k \in 1..Len(stderr) : stderr[k][1] = "ERROR"

\* The column orders of ArgSets with an entry that is no integer, or a negative one.
BadOrders == {<<"0", ",", "x">>, <<"1", ",", "-", "1">>}

AfterColumnOrderInt == pc \notin {"flags", "column_order_int", "exit", "crash"}

AfterColumnOrderString == AfterColumnOrderInt /\ pc # "column_order_string"

AfterOpenIn == pc \in {"outfile", "read", "render", "write_outtext", "write_posttext", "done"}

AfterOpenOut == pc \in {"read", "render", "write_outtext", "write_posttext", "done"}

\* C8: a fatal configuration error (an entry of the integer column order that
\* is no integer or is negative, a column order by names with headers
\* suppressed, an input or output file that cannot be opened) ends the run
\* with a non-zero exit status and nothing written: the run gets no further
\* than the check, and no write precedes or follows the error.
C8_FatalBeforeOutput ==
    /\ (truthy(args.column_order_int) /\ args.column_order_int.val[1] \in BadOrders)
          => ~AfterColumnOrderInt
    /\ (truthy(args.column_order_string) /\ args.noheader) => ~AfterColumnOrderString
    /\ (args.infile # "-" /\ args.infile \notin Readable) => ~AfterOpenIn
    /\ (args.outfile # "-" /\ args.outfile \notin Writable) => ~AfterOpenOut
    /\ FatalReported => (pc = "exit" /\ exitcode # 0 /\ written = <<>>)
    /\ pc = "exit" => (FatalReported /\ exitcode # 0 /\ written = <<>>)

\* The input file has been opened and the output file cannot be.
C8_Witness ==
    /\ pc = "exit" /\ exitcode = 1
    /\ infile = "in.csv" /\ args.outfile = "nodir/out.tex"
    /\ stderr = << <<"ERROR", "outfile">> >>
    /\ written = <<>>

\* C9, as claimed: without the option both encodings are UTF-8; with '<in>'
\* both are <in>; with '<in>,<out>' the input uses <in> and the output <out>.
C9_Encodings ==
    (pc \notin {"flags", "column_order_int", "column_order_string", "encoding", "exit"}) =>
        /\ ~truthy(args.encoding) =>
              (inencoding = <<"utf-8">> /\ outencoding = <<"utf-8">>)
        /\ args.encoding = PyList(<< <<"latin-1">> >>) =>
              (inencoding = <<"latin-1">> /\ outencoding = <<"latin-1">>)
        /\ args.encoding = PyList(<< <<"latin-1", ",", "utf-16">> >>) =>
              (inencoding = <<"latin-1">> /\ outencoding = <<"utf-16">>)

====
